---------------------------- MODULE Spec2Model ----------------------------
(***************************************************************************)
(* A model of dynamite (src/dynamite/dynamite.py): the control node, the   *)
(* per-partition bake groups (retopo, reference, cage), the three output   *)
(* object_merge aggregators and the operations create_network,             *)
(* update_network, reset_cage, edit_cage and export with the helpers they  *)
(* call.                                                                   *)
(*                                                                         *)
(* Strings are sequences of tokens.  A partition name is a sequence of     *)
(* letter tokens and role-suffix tokens; the token set is prefix-free, so  *)
(* Python's character-wise comparison, concatenation, ' '.join, split(' ') *)
(* and the substring test `x in y` coincide with the token-wise operators  *)
(* defined here.                                                           *)
(***************************************************************************)
EXTENDS Integers, Sequences, FiniteSets, TLC

\* Number of partition names the meshes may carry (a prefix of AllNames).
NumNames == 2

\* The names meshes draw their primitive groups from:
\* 'a', 'a_retopo', 'b', 'c', 'b_cage'.
AllNames == << <<"a">>, <<"a", "_retopo">>, <<"b">>, <<"c">>, <<"b", "_cage">> >>

\* Longest aggregator reference list explored: references that a removal
\* leaves behind would otherwise accumulate over the updates without end.
MaxRefs == 3

Names == { AllNames[i] : i \in 1..NumNames }

Roles == {"retopo", "reference", "cage"}

\* The two source sub-networks.
Sources == {"retopo_source", "reference_source"}

\* File paths the user may type into the two source path parameters.
SourcePaths == {"in.bgeo", "in.fbx"}

\* File paths the user may type into the three export path parameters.
ExportPaths == {"out.fbx", "out.FBX", "out.obj"}

-----------------------------------------------------------------------------
(* Strings *)

\* Character order of the first differing character of two tokens.
TokRank(t) ==
  CASE t = " "          -> 0
    [] t = "/"          -> 1
    [] t = "/obj"       -> 2
    [] t = "_cage"      -> 3
    [] t = "_reference" -> 4
    [] t = "_retopo"    -> 5
    [] t = "a"          -> 6
    [] t = "b"          -> 7
    [] t = "c"          -> 8
    [] OTHER            -> 9

\* s < t for Python strings.
RECURSIVE StrLess(_, _)
StrLess(s, t) ==
  IF t = <<>> THEN FALSE
  ELSE IF s = <<>> THEN TRUE
  ELSE IF Head(s) = Head(t) THEN StrLess(Tail(s), Tail(t))
  ELSE TokRank(Head(s)) < TokRank(Head(t))

\* Insert x in the sorted list l, before the first element greater than x.
RECURSIVE InsertSorted(_, _)
InsertSorted(x, l) ==
  IF l = <<>> THEN <<x>>
  ELSE IF StrLess(x, Head(l)) THEN <<x>> \o l
  ELSE <<Head(l)>> \o InsertSorted(x, Tail(l))

\* sorted(l) for a list of strings.
RECURSIVE Sorted(_)
Sorted(l) ==
  IF l = <<>> THEN <<>> ELSE InsertSorted(Head(l), Sorted(Tail(l)))

\* sorted(list(S)) for a set of strings.
RECURSIVE SortedSet(_)
SortedSet(S) ==
  IF S = {} THEN <<>>
  ELSE LET x == CHOOSE y \in S : \A z \in S : z = y \/ StrLess(y, z)
       IN <<x>> \o SortedSet(S \ {x})

\* The set of elements of a list.
Range(l) == { l[i] : i \in 1..Len(l) }

\* ' '.join(l)
RECURSIVE Join(_)
Join(l) ==
  IF l = <<>> THEN <<>>
  ELSE IF Len(l) = 1 THEN l[1]
  ELSE l[1] \o <<" ">> \o Join(Tail(l))

\* s.split(' '): the empty string splits to the one-element list [''].
RECURSIVE Split(_)
Split(s) ==
  LET i == IF \E k \in 1..Len(s) : s[k] = " "
           THEN CHOOSE k \in 1..Len(s) : s[k] = " " /\ \A j \in 1..(k-1) : s[j] # " "
           ELSE 0
  IN IF i = 0 THEN <<s>>
     ELSE <<SubSeq(s, 1, i - 1)>> \o Split(SubSeq(s, i + 1, Len(s)))

\* needle in hay, for Python strings.
Contains(hay, needle) ==
  \E i \in 0..(Len(hay) - Len(needle)) : SubSeq(hay, i + 1, i + Len(needle)) = needle

\* control_node.parm('network_location').eval()
network_location == <<"/obj">>

\* '_retopo', '_reference', '_cage'
RoleSuffix(role) ==
  CASE role = "retopo"    -> "_retopo"
    [] role = "reference" -> "_reference"
    [] role = "cage"      -> "_cage"

\* '%s/%s_<role>' % (network_location, name)
GroupPath(name, role) == network_location \o <<"/">> \o name \o <<RoleSuffix(role)>>


-----------------------------------------------------------------------------
(* The state *)

VARIABLES
  network_exists,  \* control_node.parm('network_exists')
  prim_groups,     \* control_node.parm('prim_groups'): the names, joined by ' '
  nodes,           \* the bake group object nodes under network_location, by path
  objpath,         \* per role, objpath1..objpath<numobj> of the output object_merge
  parms,           \* per-partition parameters of the control node, by name
  source_path,     \* control_node.parm('<source>_path')
  src,             \* per source sub-network: file, temp file and the two FBX switches
  live_groups,     \* primitive group names of the geometry cooked at each source's OUT
  materials,       \* the materials that exist under /mat
  hist,            \* the last operation: its kind, arguments, outcome, nodes created
  fn,              \* the last evaluation of a helper on drawn inputs
  triangulate,     \* control_node.parm('triangulate')
  export_path      \* control_node.parm('<role>_export_path')

vars == <<network_exists, prim_groups, nodes, objpath, parms, source_path, src,
          live_groups, materials, hist, fn, triangulate, export_path>>

\* No node is wired to the first input.
NoInput == <<>>

\* Values the user may give a per-partition parameter.
ParmValues == {0, 1}

\* Defaults of <name>_translate, <name>_peak_dist and <name>_iterations.
DefaultParms == [translate |-> 0, peak_dist |-> 0, iterations |-> 0]

\* A source sub-network that has not been created.
NoSource ==
  [exists |-> FALSE, file |-> "", temp_file |-> "", is_fbx |-> 0, is_fbx_temp |-> 0,
   stored |-> ""]

\* The part of the state the bake group constructors and the reconciliation work
\* on, with the flag of an exception having stopped the operation, the paths of
\* the nodes the operation has created, the order in which it has created
\* nodes and parameter folders and listed names, and the folders of
\* update_network's local parmTemplateGroup.
Graph(n, o, p, q) ==
  [nodes |-> n, objpath |-> o, prim_groups |-> p, parms |-> q, aborted |-> FALSE,
   created |-> {}, order |-> <<>>, ptg |-> DOMAIN q]

\* An uncaught exception: the rest of the operation is not run.
Abort(G) == [G EXCEPT !.aborted = TRUE]

\* f with the key k set to v.
With(f, k, v) == [x \in DOMAIN f \cup {k} |-> IF x = k THEN v ELSE f[x]]


-----------------------------------------------------------------------------
(* The persisted list of names *)

\* get_current_prim_groups: [] stands for None; both callers treat them alike.
get_current_prim_groups(pg) == IF pg = <<>> THEN <<>> ELSE Split(pg)

\* Mutant of add_to_current_prim_groups: the name is put last, the list is
\* not sorted.
add_appended(pg, name) ==
  LET l == get_current_prim_groups(pg)
  IN Join(IF name \in Range(l) THEN l ELSE Append(l, name))

\* add_to_current_prim_groups
add_to_current_prim_groups(pg, name) ==
  LET l == get_current_prim_groups(pg)
  IN Join(Sorted(IF name \in Range(l) THEN l ELSE Append(l, name)))

\* list.remove(x): the list without the first occurrence of x.
RECURSIVE ListRemove(_, _)
ListRemove(l, x) ==
  IF l = <<>> THEN <<>>
  ELSE IF Head(l) = x THEN Tail(l)
  ELSE <<Head(l)>> \o ListRemove(Tail(l), x)

\* set_current_prim_groups
set_current_prim_groups(l) == Join(Sorted(l))

\* Mutant of remove_from_current_prim_groups: the name is left in the list.
remove_nothing(pg, name) == pg

\* remove_from_current_prim_groups
remove_from_current_prim_groups(pg, name) ==
  LET l == get_current_prim_groups(pg)
  IN IF name \notin Range(l) THEN pg
     ELSE set_current_prim_groups(ListRemove(l, name))

-----------------------------------------------------------------------------
(* Partition-set validation *)

error_no_match == "ERROR: Primitive groups of retopo and reference files don't match."

error_no_groups == "ERROR: No primitive groups in both: retopo and reference files."

\* Mutant of primitive_groups_match: the names are compared in the order listed.
match_unsorted(g1, g2) ==
  IF Len(g1) # Len(g2) THEN [ok |-> FALSE, msg |-> error_no_match]
  ELSE IF Len(g1) = 0 THEN [ok |-> FALSE, msg |-> error_no_groups]
  ELSE IF g1 = g2 THEN [ok |-> TRUE, msg |-> ""]
  ELSE [ok |-> FALSE, msg |-> error_no_match]

\* Mutant of primitive_groups_match: no test for two empty lists.
match_no_empty_test(g1, g2) ==
  IF Len(g1) # Len(g2) THEN [ok |-> FALSE, msg |-> error_no_match]
  ELSE IF Sorted(g1) = Sorted(g2) THEN [ok |-> TRUE, msg |-> ""]
  ELSE [ok |-> FALSE, msg |-> error_no_match]

\* Mutant of primitive_groups_match: an empty list on either side is reported
\* as no groups.
match_any_empty(g1, g2) ==
  IF Len(g1) = 0 \/ Len(g2) = 0 THEN [ok |-> FALSE, msg |-> error_no_groups]
  ELSE IF Len(g1) # Len(g2) THEN [ok |-> FALSE, msg |-> error_no_match]
  ELSE IF Sorted(g1) = Sorted(g2) THEN [ok |-> TRUE, msg |-> ""]
  ELSE [ok |-> FALSE, msg |-> error_no_match]

\* primitive_groups_match(geo1, geo2), on the two lists of group names: the
\* result and the message displayed.
primitive_groups_match(g1, g2) ==
  IF Len(g1) # Len(g2) THEN [ok |-> FALSE, msg |-> error_no_match]
  ELSE IF (Len(g1) = 0 /\ Len(g2) # 0) \/ (Len(g1) # 0 /\ Len(g2) = 0)
    THEN [ok |-> FALSE, msg |-> error_no_match]
  ELSE IF Len(g1) = 0 /\ Len(g2) = 0 THEN [ok |-> FALSE, msg |-> error_no_groups]
  ELSE IF Sorted(g1) = Sorted(g2) THEN [ok |-> TRUE, msg |-> ""]
  ELSE [ok |-> FALSE, msg |-> error_no_match]

\* get_prim_group_names(geo), sorted
get_prim_group_names(g) == Sorted(g)

-----------------------------------------------------------------------------
(* Graph primitives *)

\* Mutant of Destroy: the node stays.
destroy_nothing(G, path) == G

\* hou.node(path).destroy(): a node that does not exist is None, and the call
\* raises; the connections of a destroyed node go with it.
Destroy(G, path) ==
  IF G.aborted THEN G
  ELSE IF path \notin DOMAIN G.nodes THEN Abort(G)
  ELSE [G EXCEPT !.nodes =
          [x \in DOMAIN G.nodes \ {path} |->
             IF G.nodes[x].input = path
             THEN [G.nodes[x] EXCEPT !.input = NoInput] ELSE G.nodes[x]]]

\* Mutant of channel_reference: the parameter's value of the moment is set.
value_of_now(name) == [ref |-> "", val |-> triangulate]

\* parm.set(a hou.Parm): the parameter becomes a channel reference to it; a
\* parameter is the parameter it refers to, if any, and the value set.
channel_reference(name) == [ref |-> name, val |-> 0]

\* The value of a parameter set to v: a channel reference follows the control
\* node's parameter.
EvalParm(v) == IF v.ref = "triangulate" THEN triangulate ELSE v.val

\* <name>_triangulate_switch of a retopo group and <name>_match_topology of a
\* cage group: parm('input').set(control_node.parm('triangulate')); a
\* reference group has no such switch.
SwitchOf(role) ==
  IF role \in {"retopo", "cage"} THEN channel_reference("triangulate")
  ELSE [ref |-> "", val |-> 0]

\* The first input of <name>_xform in a new bake group: the edit node in a
\* cage group, the object_merge in the others.
XformInput(role) == IF role = "cage" THEN "edit" ELSE "object_merge"

\* createNode('geo') and setName: setName raises when the name is taken.
CreateObjNode(G, path, role, edit) ==
  IF G.aborted THEN G
  ELSE IF path \in DOMAIN G.nodes THEN Abort(G)
  ELSE [G EXCEPT !.nodes = With(G.nodes, path,
                     [role |-> role, input |-> NoInput, edit |-> edit,
                      xform_input |-> XformInput(role), switch |-> SwitchOf(role)]),
                 !.created = G.created \cup {path},
                 !.order = Append(G.order, [ev |-> "node", at |-> path])]

\* Mutant of SetInput: the node is left unwired.
set_no_input(G, path, input) == G

\* node.setInput(0, input), node.setFirstInput(input)
SetInput(G, path, input) ==
  IF G.aborted THEN G
  ELSE IF path \notin DOMAIN G.nodes THEN Abort(G)
  ELSE [G EXCEPT !.nodes[path].input =
          IF input \in DOMAIN G.nodes THEN input ELSE NoInput]


-----------------------------------------------------------------------------
(* Bake group constructors.  `found` tells whether the primitive group handed *)
(* in is a group (findPrimGroup and find_prim_group return None otherwise).  *)

\* create_retopo_group: the object node, then the folder of per-partition
\* parameters (setParmTemplateGroup raises on a parameter name that exists).
create_retopo_group(G, name, found) ==
  IF G.aborted THEN G
  ELSE IF ~found THEN Abort(G)
  ELSE LET G1 == CreateObjNode(G, GroupPath(name, "retopo"), "retopo", "none")
       IN IF G1.aborted THEN G1
          ELSE IF name \in DOMAIN G1.parms THEN Abort(G1)
          ELSE [G1 EXCEPT !.parms = With(G1.parms, name, DefaultParms),
                          !.order = Append(G1.order, [ev |-> "parms", at |-> name])]

\* create_reference_group: reads <name>_reference_display, which the retopo
\* constructor creates.
create_reference_group(G, name, found) ==
  IF G.aborted THEN G
  ELSE IF ~found THEN Abort(G)
  ELSE LET G1 == CreateObjNode(G, GroupPath(name, "reference"), "reference", "none")
       IN IF G1.aborted THEN G1
          ELSE IF name \notin DOMAIN G1.parms THEN Abort(G1)
          ELSE G1

\* Mutant of create_cage_group: the name is not recorded in prim_groups.
create_cage_group_unrecorded(G, name, found) ==
  IF G.aborted THEN G
  ELSE IF ~found THEN Abort(G)
  ELSE LET G1 == CreateObjNode(G, GroupPath(name, "cage"), "cage", "empty")
       IN IF G1.aborted THEN G1
          ELSE IF name \notin DOMAIN G1.parms THEN Abort(G1)
          ELSE G1

\* create_cage_group: the object node with an empty edit node between USER_END
\* and the xform; reads <name>_cage_display; adds the name to prim_groups.
create_cage_group(G, name, found) ==
  IF G.aborted THEN G
  ELSE IF ~found THEN Abort(G)
  ELSE LET G1 == CreateObjNode(G, GroupPath(name, "cage"), "cage", "empty")
       IN IF G1.aborted THEN G1
          ELSE IF name \notin DOMAIN G1.parms THEN Abort(G1)
          ELSE [G1 EXCEPT !.prim_groups = add_to_current_prim_groups(G1.prim_groups, name),
                          !.order = Append(G1.order, [ev |-> "listed", at |-> name])]

-----------------------------------------------------------------------------
(* The aggregators *)

\* Parameters of one instance of object_merge's numobj multiparm (enable#,
\* objpath#, group#, expand#): the divisor of remove_from_multiparm.
ParmsPerInstance == 4

\* parm.multiParmInstanceIndices()[0] of objpath<k>: the place of the
\* parameter among the instances' parameters, objpath# being the second of
\* each instance.
MultiParmInstanceIndex(k) == ParmsPerInstance * (k - 1) + 1

\* multi_parm.removeMultiParmInstance(index), index counted from 0: the later
\* instances move up by one.
removeMultiParmInstance(l, index) ==
  SubSeq(l, 1, index) \o SubSeq(l, index + 2, Len(l))

\* Mutant of remove_from_multiparm: the instance is blanked and left in place.
remove_leaving_gap(l, value) ==
  IF \E k \in 1..Len(l) : Contains(l[k], value)
  THEN LET k == CHOOSE j \in 1..Len(l) :
                  Contains(l[j], value) /\ \A i \in 1..(j - 1) : ~Contains(l[i], value)
       IN [l EXCEPT ![k] = <<>>]
  ELSE l

\* remove_from_multiparm(multi_parm, 'objpath', value): the first instance
\* whose objpath contains value is removed; none is when no objpath does.
remove_from_multiparm(l, value) ==
  IF \E k \in 1..Len(l) : Contains(l[k], value)
  THEN LET k == CHOOSE j \in 1..Len(l) :
                  Contains(l[j], value) /\ \A i \in 1..(j - 1) : ~Contains(l[i], value)
       IN removeMultiParmInstance(l, MultiParmInstanceIndex(k) \div ParmsPerInstance)
  ELSE l

\* Mutant of append_to_multiparm: the reference is put first.
prepend_to_multiparm(l, path) == <<path>> \o l

\* numobj = numobj + 1; objpath<numobj> = path
append_to_multiparm(l, path) == Append(l, path)

\* The group paths of a list of names, in its order.
RECURSIVE PathsOf(_, _)
PathsOf(names, role) ==
  IF names = <<>> THEN <<>>
  ELSE <<GroupPath(Head(names), role)>> \o PathsOf(Tail(names), role)

\* create_output_group: one objpath per sorted group name of the retopo source.
create_output_group(role, groups) == PathsOf(get_prim_group_names(groups), role)


-----------------------------------------------------------------------------
(* update_network *)

\* os.path.splitext(path)[-1] of the paths of SourcePaths and ExportPaths
splitext(path) ==
  CASE path = "in.fbx"  -> ".fbx"
    [] path = "in.bgeo" -> ".bgeo"
    [] path = "out.fbx" -> ".fbx"
    [] path = "out.FBX" -> ".FBX"
    [] path = "out.obj" -> ".obj"
    [] OTHER            -> ""

\* Mutant of lower: the extension as it is written.
not_lowered(ext) == ext

\* str.lower() of an extension
lower(ext) ==
  CASE ext = ".FBX" -> ".fbx"
    [] OTHER        -> ext

\* os.path.splitext(path)[-1].lower()
PathExt(path) == lower(splitext(path))

\* is_path_fbx
is_path_fbx(path) == PathExt(path) = ".fbx"

\* The removal of one candidate: its three aggregator references, its three
\* bake groups, its name, and its folder in the local parmTemplateGroup
\* (remove raises on a folder that is not there).
RemoveCandidate(G, c) ==
  IF G.aborted THEN G
  ELSE
    LET G0 == [G EXCEPT !.objpath =
                 [r \in Roles |-> remove_from_multiparm(G.objpath[r], GroupPath(c, r))]]
        G1 == Destroy(G0, GroupPath(c, "retopo"))
        G2 == Destroy(G1, GroupPath(c, "reference"))
        G3 == Destroy(G2, GroupPath(c, "cage"))
    IN IF G3.aborted THEN G3
       ELSE LET G4 == [G3 EXCEPT !.prim_groups =
                         remove_from_current_prim_groups(G3.prim_groups, c)]
            IN IF c \notin G4.ptg THEN Abort(G4)
               ELSE [G4 EXCEPT !.ptg = G4.ptg \ {c}]

\* for candidate in candidates_removal
RECURSIVE RemoveAll(_, _)
RemoveAll(G, cs) ==
  IF cs = <<>> THEN G ELSE RemoveAll(RemoveCandidate(G, Head(cs)), Tail(cs))

\* control_node.setParmTemplateGroup(parm_template_group), after the removals
ApplyTemplateGroup(G) ==
  IF G.aborted THEN G
  ELSE [G EXCEPT !.parms = [n \in DOMAIN G.parms \cap G.ptg |-> G.parms[n]]]

\* numobj + 1 and objpath<numobj> on each of the three output object_merges
AppendReferences(G, c) ==
  IF G.aborted THEN G
  ELSE [G EXCEPT !.objpath =
          [r \in Roles |-> append_to_multiparm(G.objpath[r], GroupPath(c, r))]]

\* Mutant of AddCandidate: the cage group is made first.
add_cage_first(G, c, retopo_groups, reference_groups) ==
  LET G1 == create_cage_group(G, c, c \in retopo_groups)
      G2 == create_retopo_group(G1, c, c \in retopo_groups)
      G3 == create_reference_group(G2, c, c \in reference_groups)
      G4 == SetInput(G3, GroupPath(c, "reference"), GroupPath(c, "retopo"))
      G5 == SetInput(G4, GroupPath(c, "cage"), GroupPath(c, "reference"))
  IN G5

\* The addition of one candidate: retopo, reference and cage group, their
\* wiring, the three aggregator references, the name.
AddCandidate(G, c, retopo_groups, reference_groups) ==
  LET G1 == create_retopo_group(G, c, c \in retopo_groups)
      G2 == create_reference_group(G1, c, c \in reference_groups)
      G3 == create_cage_group(G2, c, c \in retopo_groups)
      G4 == SetInput(G3, GroupPath(c, "reference"), GroupPath(c, "retopo"))
      G5 == SetInput(G4, GroupPath(c, "cage"), GroupPath(c, "reference"))
      G6 == AppendReferences(G5, c)
  IN IF G6.aborted THEN G6
     ELSE [G6 EXCEPT !.prim_groups = add_to_current_prim_groups(G6.prim_groups, c)]

\* for candidate in candidates_add
RECURSIVE AddAll(_, _, _, _)
AddAll(G, cs, retopo_groups, reference_groups) ==
  IF cs = <<>> THEN G
  ELSE AddAll(AddCandidate(G, Head(cs), retopo_groups, reference_groups),
              Tail(cs), retopo_groups, reference_groups)

\* update_display_buttons: every group of the retopo source has its buttons.
update_display_buttons(G, retopo_groups) ==
  IF G.aborted THEN G
  ELSE IF retopo_groups \subseteq DOMAIN G.parms THEN G ELSE Abort(G)

\* candidates_removal
candidates_removal(old, new) == SortedSet(Range(old) \ Range(new))

\* Mutant of candidates_add: no name is added.
add_nothing(old, new) == <<>>

\* candidates_add
candidates_add(old, new) == SortedSet(Range(new) \ Range(old))

\* The reconciliation of update_network, from old_prim_group_names and
\* new_prim_group_names to update_display_buttons.
Reconcile(G, old, new, retopo_groups, reference_groups) ==
  LET G1 == ApplyTemplateGroup(RemoveAll(G, candidates_removal(old, new)))
      G2 == AddAll(G1, candidates_add(old, new), retopo_groups, reference_groups)
  IN update_display_buttons(G2, retopo_groups)


\* Mutant of live_file: the live file SOP is repointed before validation.
live_file_unvalidated(ok, current, path) == path

\* retopo_file.parm('file') and reference_file.parm('file') after the
\* validation of update_network: set only when the temporary copies match.
live_file(ok, current, path) == IF ok THEN path ELSE current

\* The source sub-networks after update_network: the temporary file SOPs are
\* repointed and reloaded and the temporary switches set; the live file SOPs
\* follow when the validation succeeds.
update_sources(s, sp, ok) ==
  [x \in Sources |->
     [s[x] EXCEPT !.temp_file = sp[x],
                  !.is_fbx_temp = IF is_path_fbx(sp[x]) THEN 1 ELSE 0,
                  !.file = live_file(ok, s[x].file, sp[x])]]

-----------------------------------------------------------------------------
(* Inputs *)

\* The lists of distinct names of length n.
RECURSIVE ListsOfLen(_, _)
ListsOfLen(S, n) ==
  IF n = 0 THEN { <<>> }
  ELSE { Append(l, x) : l \in ListsOfLen(S, n - 1), x \in S } 

\* The lists of distinct names, in every order.
AllLists ==
  { l \in UNION { ListsOfLen(Names, n) : n \in 0..NumNames } :
      \A i, j \in 1..Len(l) : i # j => l[i] # l[j] }

\* A list back to front.
RECURSIVE Rev(_)
Rev(l) == IF l = <<>> THEN <<>> ELSE Append(Rev(Tail(l)), Head(l))

\* geo.primGroups() of the retopo mesh: distinct group names, listed in
\* descending order, so that every sorted() of the code has work to do.
GeoLists == { Rev(SortedSet(S)) : S \in SUBSET Names }

\* geo.primGroups() of the reference mesh loaded beside a retopo mesh of groups
\* g: the same partitions in ascending order, or none at all.
ReferenceLists(g) == { Sorted(g), <<>> }

\* The operation record of a user's edit, which is none of the operations.
NoOp == [op |-> "none", name |-> <<>>, old |-> {}, new |-> {}, ok |-> TRUE,
         aborted |-> FALSE, msg |-> "", created |-> {},
            order |-> <<>>]

\* No helper has been evaluated.
NoFn == [f |-> "none"]

-----------------------------------------------------------------------------
(* Operations *)

Init ==
  /\ network_exists = FALSE
  /\ prim_groups = <<>>
  /\ nodes = <<>>
  /\ objpath = [r \in Roles |-> <<>>]
  /\ parms = <<>>
  /\ source_path = [s \in Sources |-> "in.bgeo"]
  /\ src = [s \in Sources |-> NoSource]
  /\ live_groups = [s \in Sources |-> {}]
  /\ materials = {}
  /\ hist = NoOp
  /\ triangulate = 0
  /\ export_path = [r \in Roles |-> "out.fbx"]
  /\ fn = NoFn

\* The bake groups of one primitive group in create_network's loop.
CreateGroups(G, c, retopo_groups, reference_groups) ==
  LET G1 == create_retopo_group(G, c, c \in retopo_groups)
      G2 == create_reference_group(G1, c, c \in reference_groups)
      G3 == create_cage_group(G2, c, c \in retopo_groups)
      G4 == SetInput(G3, GroupPath(c, "reference"), GroupPath(c, "retopo"))
  IN SetInput(G4, GroupPath(c, "cage"), GroupPath(c, "reference"))

\* Mutant of CreateAllGroups: no bake group is made.
create_no_groups(G, cs, retopo_groups, reference_groups) == G

\* for retopo_prim_group in sorted_retopo_prim_groups
RECURSIVE CreateAllGroups(_, _, _, _)
CreateAllGroups(G, cs, retopo_groups, reference_groups) ==
  IF cs = <<>> THEN G
  ELSE CreateAllGroups(CreateGroups(G, Head(cs), retopo_groups, reference_groups),
                       Tail(cs), retopo_groups, reference_groups)

\* create_source_network: file SOP on the source's path; both FBX switches are
\* set from retopo_source_path.
create_source_network(sp, x) ==
  [exists |-> TRUE, file |-> sp[x], temp_file |-> "",
   is_fbx |-> IF is_path_fbx(sp["retopo_source"]) THEN 1 ELSE 0,
   is_fbx_temp |-> IF is_path_fbx(sp["retopo_source"]) THEN 1 ELSE 0,
   stored |-> x]

\* retopo_source_obj.destroy(), reference_source_obj.destroy(): the node and
\* its children go; what create_source_network stored on the control node
\* (retopo_source, retopo_source_file_sop, ...) is left as set.
destroy_source(s) == [NoSource EXCEPT !.stored = s.stored]

\* The messages of create_network for a source path that does not exist.
error_no_retopo_file == "ERROR: Retopo file doesn't exist."
error_no_reference_file == "ERROR: Reference file doesn't exist."

\* create_network(control_node), with what path_exists finds for the two source
\* paths and the group names of the two meshes loaded.
create_network(e1, e2, g1, g2) ==
  LET m == primitive_groups_match(g1, g2)
      h == [op |-> "create", name |-> <<>>, old |-> {}, new |-> Range(g1),
            ok |-> FALSE, aborted |-> FALSE, msg |-> "", created |-> {},
            order |-> <<>>]
  IN /\ materials' = materials \cup {"cage", "reference"}
     /\ UNCHANGED <<source_path, fn, triangulate, export_path>>
     /\ IF ~e1 \/ ~e2
        THEN /\ hist' = [h EXCEPT !.msg = IF ~e1 THEN error_no_retopo_file
                                          ELSE error_no_reference_file]
             /\ UNCHANGED <<network_exists, prim_groups, nodes, objpath, parms, src,
                            live_groups>>
        ELSE IF ~m.ok
        THEN /\ hist' = [h EXCEPT !.msg = m.msg]
             /\ src' = [x \in Sources |->
                          destroy_source(create_source_network(source_path, x))]
             /\ UNCHANGED <<network_exists, prim_groups, nodes, objpath, parms,
                            live_groups>>
        ELSE \E G \in { CreateAllGroups(Graph(nodes, objpath, prim_groups, parms),
                                          Sorted(g1), Range(g1), Range(g2)) } :
             /\ hist' = [h EXCEPT !.ok = TRUE, !.aborted = G.aborted,
                                  !.created = G.created,
                                  !.order = G.order]
             /\ src' = [x \in Sources |-> create_source_network(source_path, x)]
             /\ live_groups' = [x \in Sources |->
                                  IF x = "retopo_source" THEN Range(g1) ELSE Range(g2)]
             /\ nodes' = G.nodes
             /\ prim_groups' = G.prim_groups
             /\ parms' = G.parms
             /\ objpath' = IF G.aborted THEN objpath
                           ELSE [r \in Roles |-> create_output_group(r, g1)]
             /\ network_exists' = IF G.aborted THEN network_exists ELSE TRUE

\* The Create Network button, disabled when network_exists is 1.
CreateNetwork ==
  /\ ~network_exists
  /\ \E e1, e2 \in BOOLEAN : \E g1 \in GeoLists : \E g2 \in ReferenceLists(g1) :
       create_network(e1, e2, g1, g2)

\* update_network(control_node), with the group names of the two meshes the
\* temporary file SOPs reload.
update_network(g1, g2) ==
  LET m   == primitive_groups_match(g1, g2)
      old == Split(prim_groups)
      new == get_prim_group_names(g1)
      G0  == Graph(nodes, objpath, prim_groups, parms)
      h   == [op |-> "update", name |-> <<>>, old |-> Range(old), new |-> Range(g1),
              ok |-> m.ok, aborted |-> FALSE, msg |-> m.msg, created |-> {},
            order |-> <<>>]
  IN /\ src' = update_sources(src, source_path, m.ok)
     /\ UNCHANGED <<network_exists, source_path, materials, fn, triangulate, export_path>>
     /\ IF ~m.ok
        THEN /\ hist' = h
             /\ UNCHANGED <<prim_groups, nodes, objpath, parms, live_groups>>
        ELSE \E Grm \in { ApplyTemplateGroup(RemoveAll(G0, candidates_removal(old, new))) } :
             \E G \in { Reconcile(G0, old, new, Range(g1), Range(g2)) } :
             /\ \A r \in Roles : Len(G.objpath[r]) <= MaxRefs
             /\ hist' = [h EXCEPT !.aborted = G.aborted, !.created = G.created,
                                  !.order = G.order]
             /\ nodes' = G.nodes
             /\ objpath' = G.objpath
             /\ prim_groups' = G.prim_groups
             /\ parms' = G.parms
             /\ live_groups' =
                  [x \in Sources |->
                     IF Grm.aborted /\ src[x].file = source_path[x] THEN live_groups[x]
                     ELSE IF x = "retopo_source" THEN Range(g1) ELSE Range(g2)]

\* The Update Network button, disabled when network_exists is 0.
UpdateNetwork ==
  /\ network_exists
  /\ \E g1 \in GeoLists : \E g2 \in ReferenceLists(g1) : update_network(g1, g2)


\* Mutant of reset_cage_parms: the parameters are left as they are.
keep_cage_parms(q, name) == q

\* "Reset cage-specific control node parameters": <name>_translate is set to
\* (0, 0, 0) and <name>_peak_dist to 0.
reset_cage_parms(q, name) ==
  [q EXCEPT ![name].translate = 0, ![name].peak_dist = 0]

\* xform.parmTuple('t').set(control_node.parmTuple('<name>_translate')) in the
\* three constructors: the translation of a bake group of any role is the
\* value of the one <name>_translate of the control node.
xform_t(q, name, role) == q[name].translate

\* reset_cage(prim_group_name, control_node): the cage group is destroyed and
\* created anew, wired from the reference group; translate and peak distance
\* are set back to 0.
reset_cage(name) ==
  LET G0 == Graph(nodes, objpath, prim_groups, parms)
      G1 == Destroy(G0, GroupPath(name, "cage"))
      G2 == create_cage_group(G1, name, name \in live_groups["retopo_source"])
      G3 == SetInput(G2, GroupPath(name, "cage"), GroupPath(name, "reference"))
  IN \E G4 \in { IF G3.aborted THEN G3
                  ELSE IF name \notin DOMAIN G3.parms THEN Abort(G3)
                  ELSE [G3 EXCEPT !.parms = reset_cage_parms(G3.parms, name)] } :
     /\ nodes' = G4.nodes
     /\ prim_groups' = G4.prim_groups
     /\ parms' = G4.parms
     /\ hist' = [op |-> "reset", name |-> name, old |-> {}, new |-> {}, ok |-> TRUE,
                 aborted |-> G4.aborted, msg |-> "", created |-> G4.created,
                 order |-> G4.order]
     /\ UNCHANGED <<network_exists, objpath, source_path, src, live_groups, materials, fn,
                    triangulate, export_path>>

\* The Reset Changes button of a partition's folder.
ResetCage == \E name \in DOMAIN parms : reset_cage(name)

\* The user changes one of a partition's parameters on the control node.
UserSetParm ==
  \E name \in DOMAIN parms : \E v \in ParmValues :
    \E p \in [translate : {v}, peak_dist : {v}, iterations : {v}] :
      /\ parms[name] # p
      /\ parms' = [parms EXCEPT ![name] = p]
      /\ hist' = NoOp
      /\ UNCHANGED <<network_exists, prim_groups, nodes, objpath, source_path, src,
                     live_groups, materials, fn, triangulate, export_path>>

\* The user edits the cage in the edit node of a cage group.
UserEditCage ==
  \E path \in DOMAIN nodes :
    /\ nodes[path].role = "cage"
    /\ nodes[path].edit = "empty"
    /\ nodes' = [nodes EXCEPT ![path].edit = "user"]
    /\ hist' = NoOp
    /\ UNCHANGED <<network_exists, prim_groups, objpath, parms, source_path, src,
                   live_groups, materials, fn, triangulate, export_path>>

\* The user types another path into a source path parameter; the script
\* callback create_source_network attached sets the source's FBX switch.
UserSetSourcePath ==
  \E x \in Sources : \E path \in SourcePaths :
    /\ source_path[x] # path
    /\ source_path' = [source_path EXCEPT ![x] = path]
    /\ src' = IF src[x].exists
              THEN [src EXCEPT ![x].is_fbx = IF is_path_fbx(path) THEN 1 ELSE 0]
              ELSE src
    /\ hist' = NoOp
    /\ UNCHANGED <<network_exists, prim_groups, nodes, objpath, parms, live_groups,
                   materials, fn, triangulate, export_path>>

\* The user deletes a bake group node in the network editor.
ExternalDestroy ==
  \E path \in DOMAIN nodes :
    /\ nodes' = Destroy(Graph(nodes, objpath, prim_groups, parms), path).nodes
    /\ hist' = NoOp
    /\ UNCHANGED <<network_exists, prim_groups, objpath, parms, source_path, src,
                   live_groups, materials, fn, triangulate, export_path>>

\* The user toggles Triangulate on the control node.
UserSetTriangulate ==
  /\ triangulate' = 1 - triangulate
  /\ hist' = NoOp
  /\ UNCHANGED <<network_exists, prim_groups, nodes, objpath, parms, source_path, src,
                 live_groups, materials, fn, export_path>>

\* The buttons of the control node and the user's edits of what they built.
Next ==
  \/ CreateNetwork
  \/ UpdateNetwork
  \/ ResetCage
  \/ UserSetParm
  \/ UserEditCage

Spec == Init /\ [][Next]_vars

\* The buttons and the user's choice of the two source paths.
NextSrc ==
  \/ CreateNetwork
  \/ UpdateNetwork
  \/ ResetCage
  \/ UserSetSourcePath

SpecSrc == Init /\ [][NextSrc]_vars

\* The buttons on a graph the user deletes nodes of.
NextExt ==
  \/ CreateNetwork
  \/ UpdateNetwork
  \/ ResetCage
  \/ ExternalDestroy

SpecExt == Init /\ [][NextExt]_vars

\* Mutant of edit_cage_nodes: the edit node is made anew and the xform is not
\* wired to it.
edit_not_rewired(n, path) ==
  IF n[path].edit = "missing" THEN [n EXCEPT ![path].edit = "empty"] ELSE n

\* The nodes after edit_cage on the cage group at path: an edit node that is
\* not there is created, USER_END wired to it and it to the xform; one that is
\* there is left alone.
edit_cage_nodes(n, path) ==
  IF n[path].edit = "missing"
  THEN [n EXCEPT ![path].edit = "empty", ![path].xform_input = "edit"]
  ELSE n

\* edit_cage(prim_group_name, control_node): the edit node of the cage group
\* is created anew between USER_END and the xform when it is not there, and
\* made the current node.
edit_cage(name) ==
  LET path == GroupPath(name, "cage")
      h == [op |-> "edit_cage", name |-> name, old |-> {}, new |-> {}, ok |-> TRUE,
            aborted |-> FALSE, msg |-> "", created |-> {},
            order |-> <<>>]
  IN /\ IF path \notin DOMAIN nodes
        THEN /\ hist' = [h EXCEPT !.aborted = TRUE]
             /\ UNCHANGED nodes
        ELSE /\ hist' = h
             /\ nodes' = edit_cage_nodes(nodes, path)
     /\ UNCHANGED <<network_exists, prim_groups, objpath, parms, source_path, src,
                    live_groups, materials, fn, triangulate, export_path>>

\* The Edit Cage button of a partition's folder.
EditCage == \E name \in DOMAIN parms : edit_cage(name)

\* Houdini removes an edit node the user entered and left without a change;
\* the xform that read it is wired to USER_END or left without an input.
HoudiniRemovesEdit ==
  \E path \in DOMAIN nodes : \E x \in {"USER_END", "none"} :
    /\ nodes[path].role = "cage"
    /\ nodes[path].edit = "empty"
    /\ nodes' = [nodes EXCEPT ![path].edit = "missing", ![path].xform_input = x]
    /\ hist' = NoOp
    /\ UNCHANGED <<network_exists, prim_groups, objpath, parms, source_path, src,
                   live_groups, materials, fn, triangulate, export_path>>

\* The export buttons: Export Retopo and Cage, Export Reference, Export All.
ExportButtons == { <<TRUE, FALSE, TRUE>>, <<FALSE, TRUE, FALSE>>, <<TRUE, TRUE, TRUE>> }

\* '%s/%s' % (network_location, 'fbx_temp_subnet')
fbx_temp_subnet == network_location \o <<"/", "fbx_temp_subnet">>

\* '/out/%s_fbx_export' % 'retopo'
fbx_rop_path == <<"/out", "/", "retopo_fbx_export">>

\* A node that is not a bake group: the subnet and the ROP of an FBX export.
TempNode(kind) ==
  [role |-> kind, input |-> NoInput, edit |-> "none", xform_input |-> "none",
   switch |-> [ref |-> "", val |-> 0]]

\* create_fbx_export_nodes(obj_nodes, find, replace_with, control_node): the
\* subnet is made unless it is there, then one geo per bake group in it;
\* obj_node.name() raises on a bake group that hou.node did not find.
create_fbx_export_nodes(G, obj_nodes) ==
  IF G.aborted THEN G
  ELSE LET G1 == IF fbx_temp_subnet \in DOMAIN G.nodes THEN G
                 ELSE [G EXCEPT !.nodes = With(G.nodes, fbx_temp_subnet, TempNode("subnet")),
                                !.created = G.created \cup {fbx_temp_subnet}]
       IN IF \E i \in 1..Len(obj_nodes) : obj_nodes[i] \notin DOMAIN G.nodes
          THEN Abort(G1) ELSE G1

\* create_fbx_rop(prefix): the filmboxfbx ROP is made unless it is there.
create_fbx_rop(G) ==
  IF G.aborted \/ fbx_rop_path \in DOMAIN G.nodes THEN G
  ELSE [G EXCEPT !.nodes = With(G.nodes, fbx_rop_path, TempNode("rop")),
                 !.created = G.created \cup {fbx_rop_path}]

\* Mutant of export_fbx: the subnet and the ROP are left in the scene.
export_fbx_leaving_nodes(G, role) ==
  LET names == Split(G.prim_groups)
      obj_nodes == [i \in 1..Len(names) |-> GroupPath(names[i], role)]
  IN create_fbx_rop(create_fbx_export_nodes(G, obj_nodes))

\* export_fbx(group_type, suffix, control_node): the bake groups of the names
\* of prim_groups.split(' ') are merged in the subnet, the ROP is run on it,
\* and the ROP and the subnet are destroyed.
export_fbx(G, role) ==
  LET names == Split(G.prim_groups)
      obj_nodes == [i \in 1..Len(names) |-> GroupPath(names[i], role)]
      G1 == create_fbx_export_nodes(G, obj_nodes)
      G2 == create_fbx_rop(G1)
  IN Destroy(Destroy(G2, fbx_rop_path), fbx_temp_subnet)

\* One role's branch of export: by the extension of the role's export path,
\* export_fbx writing to that path, or the export ROP of the role's output,
\* whose sopoutput refers to the same parameter.  E is the graph and the
\* exports run so far.
export_role(E, role) ==
  IF E.G.aborted THEN E
  ELSE IF is_path_fbx(export_path[role])
  THEN LET G1 == export_fbx(E.G, role)
       IN [G |-> G1,
           log |-> IF G1.aborted THEN E.log
                   ELSE Append(E.log, [role |-> role, by |-> "export_fbx",
                                       path |-> export_path[role]])]
  ELSE [E EXCEPT !.log = Append(@, [role |-> role, by |-> "export_sop",
                                    path |-> export_path[role]])]

\* export(retopo, reference, cage, control_node): retopo, then reference, then
\* cage, each if asked for; no aggregator or control parameter is written.
export(retopo, reference, cage) ==
  LET E0 == [G |-> Graph(nodes, objpath, prim_groups, parms), log |-> <<>>]
      E1 == IF retopo THEN export_role(E0, "retopo") ELSE E0
      E2 == IF reference THEN export_role(E1, "reference") ELSE E1
  IN \E E \in { IF cage THEN export_role(E2, "cage") ELSE E2 } :
       /\ nodes' = E.G.nodes
       /\ hist' = [op |-> "export", name |-> <<>>, old |-> {},
                   new |-> { r \in Roles : \/ r = "retopo" /\ retopo
                                           \/ r = "reference" /\ reference
                                           \/ r = "cage" /\ cage },
                   ok |-> TRUE, aborted |-> E.G.aborted, msg |-> "",
                   created |-> E.G.created, order |-> E.G.order, log |-> E.log]
       /\ UNCHANGED <<network_exists, prim_groups, objpath, parms, source_path, src,
                      live_groups, materials, fn, triangulate, export_path>>

\* The export buttons, disabled when network_exists is 0.
Export ==
  /\ network_exists
  /\ \E b \in ExportButtons : export(b[1], b[2], b[3])

\* Every operation a button of the control node calls.
NextOps ==
  \/ CreateNetwork
  \/ UpdateNetwork
  \/ ResetCage
  \/ EditCage
  \/ Export
  \/ HoudiniRemovesEdit

SpecOps == Init /\ [][NextOps]_vars

\* The names and the lists of distinct names the helpers of the name list are
\* called with.
PgNames == { AllNames[i] : i \in 1..(NumNames + 1) }

PgLists ==
  { l \in UNION { ListsOfLen(PgNames, n) : n \in 0..(NumNames + 1) } :
      \A i, j \in 1..Len(l) : i # j => l[i] # l[j] }

\* The record of a call of a helper of the name list: the names before it and
\* the names after it, as sets.
PgCall(op, name, new) ==
  [NoOp EXCEPT !.op = op, !.name = name, !.old = hist.new, !.new = new]

\* add_to_current_prim_groups(control_node, prim_group_name)
AddToCurrentPrimGroups ==
  \E name \in PgNames :
    /\ prim_groups' = add_to_current_prim_groups(prim_groups, name)
    /\ hist' = PgCall("add_to_current_prim_groups", name, hist.new \cup {name})
    /\ UNCHANGED <<network_exists, nodes, objpath, parms, source_path, src,
                   live_groups, materials, fn, triangulate, export_path>>

\* remove_from_current_prim_groups(control_node, prim_group_name)
RemoveFromCurrentPrimGroups ==
  \E name \in PgNames :
    /\ prim_groups' = remove_from_current_prim_groups(prim_groups, name)
    /\ hist' = PgCall("remove_from_current_prim_groups", name, hist.new \ {name})
    /\ UNCHANGED <<network_exists, nodes, objpath, parms, source_path, src,
                   live_groups, materials, fn, triangulate, export_path>>

\* set_current_prim_groups(control_node, prim_group_names)
SetCurrentPrimGroups ==
  \E l \in PgLists :
    /\ prim_groups' = set_current_prim_groups(l)
    /\ hist' = PgCall("set_current_prim_groups", <<>>, Range(l))
    /\ UNCHANGED <<network_exists, nodes, objpath, parms, source_path, src,
                   live_groups, materials, fn, triangulate, export_path>>

\* The helpers of the name list, called in any order on the control node as
\* create_control_node leaves it.
NextPg ==
  \/ AddToCurrentPrimGroups
  \/ RemoveFromCurrentPrimGroups
  \/ SetCurrentPrimGroups

SpecPg == Init /\ [][NextPg]_vars

\* The user types another path into an export path parameter.
UserSetExportPath ==
  \E role \in Roles : \E path \in ExportPaths :
    /\ export_path[role] # path
    /\ export_path' = [export_path EXCEPT ![role] = path]
    /\ hist' = NoOp
    /\ UNCHANGED <<network_exists, prim_groups, nodes, objpath, parms, source_path, src,
                   live_groups, materials, fn, triangulate>>

\* The creation and the export buttons, and the export path parameters.
NextExp ==
  \/ CreateNetwork
  \/ Export
  \/ UserSetExportPath

SpecExp == Init /\ [][NextExp]_vars

\* The buttons and the Triangulate toggle.
NextTri ==
  \/ CreateNetwork
  \/ UpdateNetwork
  \/ ResetCage
  \/ UserSetTriangulate

SpecTri == Init /\ [][NextTri]_vars

-----------------------------------------------------------------------------
(* The helpers on their own: primitive_groups_match on two meshes' group     *)
(* lists in every order, remove_from_multiparm on an aggregator built from a *)
(* list of names in every order.                                             *)

\* The inputs of one evaluation, before a helper is applied to them.
FnInputs ==
  { [f |-> "input", g1 |-> a, g2 |-> b, name |-> n, role |-> r,
     ok |-> FALSE, msg |-> "", out |-> <<>>] :
       a \in AllLists, b \in AllLists, n \in Names, r \in Roles }

InitFn ==
  /\ network_exists = FALSE
  /\ prim_groups = <<>>
  /\ nodes = <<>>
  /\ objpath = [r \in Roles |-> <<>>]
  /\ parms = <<>>
  /\ source_path = [s \in Sources |-> "in.bgeo"]
  /\ src = [s \in Sources |-> NoSource]
  /\ live_groups = [s \in Sources |-> {}]
  /\ materials = {}
  /\ hist = NoOp
  /\ triangulate = 0
  /\ export_path = [r \in Roles |-> "out.fbx"]
  /\ fn \in FnInputs

\* primitive_groups_match(geo1, geo2) on the group lists g1 and g2.
PrimitiveGroupsMatch ==
  /\ fn.f = "input"
  /\ fn' = [fn EXCEPT !.f = "primitive_groups_match",
                      !.ok = primitive_groups_match(fn.g1, fn.g2).ok,
                      !.msg = primitive_groups_match(fn.g1, fn.g2).msg]
  /\ UNCHANGED <<network_exists, prim_groups, nodes, objpath, parms, source_path, src,
                 live_groups, materials, hist, triangulate, export_path>>

\* The aggregator of fn.role holding one reference per name of fn.g1.
FnAggregator == PathsOf(fn.g1, fn.role)

\* remove_from_multiparm(numobj, 'objpath', <network>/<name>_<role>)
RemoveFromMultiparm ==
  /\ fn.f = "input"
  /\ fn' = [fn EXCEPT !.f = "remove_from_multiparm",
                      !.out = remove_from_multiparm(FnAggregator,
                                                    GroupPath(fn.name, fn.role))]
  /\ UNCHANGED <<network_exists, prim_groups, nodes, objpath, parms, source_path, src,
                 live_groups, materials, hist, triangulate, export_path>>

NextFn ==
  \/ PrimitiveGroupsMatch
  \/ RemoveFromMultiparm

SpecFn == InitFn /\ [][NextFn]_vars

-----------------------------------------------------------------------------
(* The meshes of a cage group.  A mesh is its point positions in point order, *)
(* its connectivity, its groups and its attributes.  A position is a number; *)
(* connectivity is named by how it was made.                                 *)

\* Most points of a mesh drawn.
MaxPts == 2

\* The positions a point of a drawn mesh may have.
Positions == {0, 1, 2}

\* What VEX's pointattrib returns when the lookup fails.
ZeroVector == 0

\* The lists of positions of at most MaxPts points.
RECURSIVE PointListsOfLen(_)
PointListsOfLen(n) ==
  IF n = 0 THEN { <<>> }
  ELSE { Append(l, x) : l \in PointListsOfLen(n - 1), x \in Positions }

PointLists == UNION { PointListsOfLen(n) : n \in 0..MaxPts }

\* Attributes, by class and name.
AttrP == <<"point", "P">>
AttrCd == <<"point", "Cd">>
AttrUv == <<"vertex", "uv">>
AttrShop == <<"primitive", "shop_materialpath">>
AttrName == <<"primitive", "fbx_node_name">>

NoMesh == [P |-> <<>>, faces |-> <<"none">>, groups |-> {}, attribs |-> {}]

\* pointattrib(1, "P", @ptnum, success): the value read, the zero vector when
\* the second input has no such point.
pointattrib(mesh, ptnum) ==
  IF ptnum \in 1..Len(mesh.P)
  THEN [value |-> mesh.P[ptnum], success |-> 1]
  ELSE [value |-> ZeroVector, success |-> 0]

\* The positions the wrangle writes on points k..Len(topo.P) of its first input.
RECURSIVE WranglePoints(_, _, _)
WranglePoints(topo, pos, k) ==
  IF k > Len(topo.P) THEN <<>>
  ELSE <<pointattrib(pos, k).value>> \o WranglePoints(topo, pos, k + 1)

\* Mutant of match_point_positions: P is read from the wrangle's first input.
match_first_input(topo, pos) == [topo EXCEPT !.P = WranglePoints(topo, topo, 1)]

\* match_point_positions: run over the points of its first input, @P is
\* assigned what pointattrib returns, success or not.
match_point_positions(topo, pos) == [topo EXCEPT !.P = WranglePoints(topo, pos, 1)]

\* delete_non_crucial_attribs: ptdel '* ^P ^N', vtxdel '* ^N ^uv', primdel '*',
\* dtldel '*'
delete_non_crucial_attribs(mesh) ==
  [mesh EXCEPT !.attribs =
     { a \in mesh.attribs : \/ a[1] = "point" /\ a[2] \in {"P", "N"}
                            \/ a[1] = "vertex" /\ a[2] \in {"N", "uv"} }]

\* remove_source_groups: groupdelete of '*'
remove_source_groups(mesh) == [mesh EXCEPT !.groups = {}]

\* transfer_groups: every group of the second input onto the first
transfer_groups(mesh, from) == [mesh EXCEPT !.groups = mesh.groups \cup from.groups]

\* The subnet of topo_match.create_node on its two inputs: input 0 the mesh
\* whose positions are wanted, input 1 the mesh whose connectivity is.  The
\* normal SOP before OUT recomputes normals, which a mesh here does not carry.
topo_match(input0, input1) ==
  transfer_groups(
    remove_source_groups(
      delete_non_crucial_attribs(match_point_positions(input1, input0))),
    input0)

\* The mesh of a partition as the object_merge of a bake group brings it in.
SourceMesh(points, name) ==
  [P |-> points, faces |-> <<"source">>, groups |-> {name},
   attribs |-> {AttrP, AttrCd, AttrUv, AttrShop, AttrName}]

\* A SOP that moves every point by d and nothing else (xform, peak, edit).
RECURSIVE MovePoints(_, _)
MovePoints(points, d) ==
  IF points = <<>> THEN <<>> ELSE <<Head(points) + d>> \o MovePoints(Tail(points), d)

\* subdivide: points are added after the ones there, faces are replaced.
subdivide(mesh) ==
  [mesh EXCEPT !.P = mesh.P \o mesh.P, !.faces = <<"subdivided">> \o mesh.faces]

\* The subdivide switch of a bake group: input 1 is the subdivide SOP.
subdivide_switch(mesh, flag) == IF flag = 1 THEN subdivide(mesh) ELSE mesh

\* <name>_triangulate, a divide SOP: no point is added.
triangulate_sop(mesh) == [mesh EXCEPT !.faces = <<"triangulated">> \o mesh.faces]

\* <name>_shop_path_delete
delete_material(mesh) == [mesh EXCEPT !.attribs = mesh.attribs \ {AttrShop}]

\* The cage group's mesh at its subdivide switch: the source moved by peak,
\* the user's edit and xform (d in all), then subdivided or not.
cage_subdivide_switch(points, name, d, flag) ==
  LET m == SourceMesh(points, name)
  IN subdivide_switch([m EXCEPT !.P = MovePoints(m.P, d)], flag)

\* <name>_retopo/<name>_triangulate as <name>_retopo_merge reads it.
retopo_triangulate(points, name, flag) ==
  triangulate_sop(subdivide_switch(SourceMesh(points, name), flag))

\* The donors of topo_match taken alone, and the sources of a cage group.
GeoInputs ==
  { [f |-> "donors", source |-> <<>>, d |-> 0, subdivide |-> 0,
     cage |-> [P |-> c, faces |-> <<"cage">>, groups |-> {AllNames[1]},
               attribs |-> {AttrP, AttrUv}],
     retopo |-> [P |-> r, faces |-> <<"retopo">>, groups |-> g,
                 attribs |-> {AttrP, AttrUv} \cup a],
     out |-> NoMesh] :
       c \in PointLists, r \in PointLists,
       g \in {{AllNames[1]}, {AllNames[2]}}, a \in {{}, {AttrCd, AttrName}} }
  \cup
  { [f |-> "source", source |-> q, d |-> d, subdivide |-> sd,
     cage |-> NoMesh, retopo |-> NoMesh, out |-> NoMesh] :
       q \in PointLists, d \in {0, 1}, sd \in {0, 1} }

InitGeo ==
  /\ network_exists = FALSE
  /\ prim_groups = <<>>
  /\ nodes = <<>>
  /\ objpath = [r \in Roles |-> <<>>]
  /\ parms = <<>>
  /\ source_path = [s \in Sources |-> "in.bgeo"]
  /\ src = [s \in Sources |-> NoSource]
  /\ live_groups = [s \in Sources |-> {}]
  /\ materials = {}
  /\ hist = NoOp
  /\ triangulate = 0
  /\ export_path = [r \in Roles |-> "out.fbx"]
  /\ fn \in GeoInputs

\* topo_match's subnet cooked on two donors.
TopoMatch ==
  /\ fn.f = "donors"
  /\ fn' = [fn EXCEPT !.f = "topo_match", !.out = topo_match(fn.cage, fn.retopo)]
  /\ UNCHANGED <<network_exists, prim_groups, nodes, objpath, parms, source_path, src,
                 live_groups, materials, hist, triangulate, export_path>>

\* The topo_match of a cage group cooked: input 0 from the group's subdivide
\* switch, input 1 from <name>_shop_path_delete below <name>_retopo_merge.
CageTopologyMatch ==
  /\ fn.f = "source"
  /\ \E c \in { cage_subdivide_switch(fn.source, AllNames[1], fn.d, fn.subdivide) } :
     \E r \in { retopo_triangulate(fn.source, AllNames[1], fn.subdivide) } :
       fn' = [fn EXCEPT !.f = "cage_topology_match", !.cage = c, !.retopo = r,
                        !.out = topo_match(c, delete_material(r))]
  /\ UNCHANGED <<network_exists, prim_groups, nodes, objpath, parms, source_path, src,
                 live_groups, materials, hist, triangulate, export_path>>

NextGeo ==
  \/ TopoMatch
  \/ CageTopologyMatch

SpecGeo == InitGeo /\ [][NextGeo]_vars

-----------------------------------------------------------------------------
(* What the properties observe *)

\* The Control State's partition-name set: the names of prim_groups.
NameSet == Range(get_current_prim_groups(prim_groups))

\* The bake group of a name in a role exists.
HasGroup(name, role) ==
  /\ GroupPath(name, role) \in DOMAIN nodes
  /\ nodes[GroupPath(name, role)].role = role

\* How many entries of an aggregator list are the path.
RefCount(l, path) == Cardinality({ k \in 1..Len(l) : l[k] = path })

\* The last step was update_network and it reconciled to the end.
Reconciled == hist.op = "update" /\ hist.ok /\ ~hist.aborted

-----------------------------------------------------------------------------
(* Properties of the reconciliation *)

\* C1: every name in both the old and the new set is left untouched by
\* update_network's reconciliation: its three bake groups are the same nodes
\* with the same wiring and cage edit content, its parameters keep their
\* values, and its reference is still present in each of the three aggregators.
C1_KeptNamesUntouched ==
  [][ (hist'.op = "update" /\ hist'.ok /\ ~hist'.aborted) =>
        \A name \in hist'.old \cap hist'.new :
          /\ \A r \in Roles :
               /\ GroupPath(name, r) \in DOMAIN nodes
               /\ GroupPath(name, r) \in DOMAIN nodes'
               /\ GroupPath(name, r) \notin hist'.created
               /\ nodes'[GroupPath(name, r)] = nodes[GroupPath(name, r)]
               /\ RefCount(objpath[r], GroupPath(name, r)) >= 1
                    => RefCount(objpath'[r], GroupPath(name, r)) >= 1
          /\ name \in DOMAIN parms
          /\ name \in DOMAIN parms'
          /\ parms'[name] = parms[name] ]_vars

\* C2 as stated: after update_network has observed the new names of two
\* meshes that agree, the name set equals new, whatever old was, new empty
\* included.
C2_NamesEqualNewAlways ==
  (hist.op = "update" /\ (hist.ok \/ hist.msg = error_no_groups)) => NameSet = hist.new

\* C2: after update_network the name set equals new, whatever old was
\* (disjoint from new included), when the validation succeeded, which needs
\* new non-empty; when it failed, new empty included, the name set is old.
C2_NamesEqualNewWhenValidated ==
  hist.op = "update" =>
    /\ hist.ok => hist.new # {}
    /\ NameSet = IF hist.ok /\ ~hist.aborted THEN hist.new ELSE hist.old

\* A reconciliation from a non-empty old set to a disjoint new set.
C2_Witness ==
  /\ Reconciled
  /\ hist.old # {}
  /\ hist.old \cap hist.new = {}
  /\ NameSet = hist.new

\* C3: the name list is exactly the set of names that have a bake group
\* triple; each listed name has its bake group in each of the three roles, and
\* no bake group exists for a name that is not listed.
C3_NamesAreGroupTriples ==
  /\ \A name \in Names : name \in NameSet <=> \A r \in Roles : HasGroup(name, r)
  /\ \A path \in DOMAIN nodes :
       \E name \in NameSet : \E r \in Roles :
         path = GroupPath(name, r) /\ nodes[path].role = r
  /\ NameSet \subseteq Names

\* reset_cage has rebuilt the cage group of one of several listed names.
C3_Witness ==
  /\ hist.op = "reset"
  /\ ~hist.aborted
  /\ hist.name \in NameSet
  /\ Cardinality(NameSet) >= 2
  /\ GroupPath(hist.name, "cage") \in hist.created

\* C4: each aggregator holds exactly one reference <network>/<name>_<role> for
\* every listed name, none for any other name, no duplicates, and as many
\* entries as there are listed names.
C4_AggregatorsInSync ==
  \A r \in Roles :
    /\ Len(objpath[r]) = Cardinality(NameSet)
    /\ \A name \in NameSet : RefCount(objpath[r], GroupPath(name, r)) = 1
    /\ \A k \in 1..Len(objpath[r]) :
         \E name \in NameSet : objpath[r][k] = GroupPath(name, r)

\* C5: for each name update_network removes and each role, the reference
\* removed from the aggregator is the one to <network>/<name>_<role>, and the
\* reference of no partition that stays is removed, whatever the positions and
\* also when one group path is a substring of another.
C5_RemovesExactlyTheReference ==
  [][ (hist'.op = "update" /\ hist'.ok /\ ~hist'.aborted) =>
        \A r \in Roles :
          /\ \A name \in hist'.old \ hist'.new :
               RefCount(objpath[r], GroupPath(name, r)) = 1
                 => RefCount(objpath'[r], GroupPath(name, r)) = 0
          /\ \A name \in hist'.old \cap hist'.new :
               RefCount(objpath'[r], GroupPath(name, r))
                 = RefCount(objpath[r], GroupPath(name, r)) ]_vars

C7_FailedValidationKeepsLive ==
  [][ (hist'.op = "update" /\ ~hist'.ok) =>
        /\ nodes' = nodes
        /\ prim_groups' = prim_groups
        /\ objpath' = objpath
        /\ parms' = parms
        /\ network_exists' = network_exists
        /\ live_groups' = live_groups
        /\ \A x \in Sources :
             /\ src'[x].file = src[x].file
             /\ src'[x].is_fbx = src[x].is_fbx
             /\ src'[x].exists = src[x].exists ]_vars

\* A failed update_network of a network whose user had typed another path:
\* the temporary file SOP is on the new path, the live one on the old.
C7_Witness ==
  /\ hist.op = "update"
  /\ ~hist.ok
  /\ NameSet # {}
  /\ \E x \in Sources :
       /\ src[x].temp_file = source_path[x]
       /\ src[x].file # source_path[x]

\* C8: primitive_groups_match succeeds exactly when the two name sets are
\* non-empty and equal as sets, whatever the order each mesh lists them in; it
\* fails when the sizes differ and when a name is in one set and not the other.
C8_MatchIffEqualSets ==
  fn.f = "primitive_groups_match" =>
    /\ fn.ok <=> (Range(fn.g1) # {} /\ Range(fn.g1) = Range(fn.g2))
    /\ Len(fn.g1) # Len(fn.g2) => ~fn.ok
    /\ (\E n \in Names : (n \in Range(fn.g1)) # (n \in Range(fn.g2))) => ~fn.ok

\* Two meshes that list the same partitions in different orders match.
C8_Witness ==
  /\ fn.f = "primitive_groups_match"
  /\ fn.ok
  /\ fn.g1 # fn.g2

-----------------------------------------------------------------------------
(* Properties of the reconciliation of a graph changed from outside *)

\* C9: when a bake group node of a name to remove is missing, the removal of
\* that name is skipped and the reconciliation goes on to its end: it is not
\* aborted, and every new name ends up listed.
C9_MissingNodeIsSkipped ==
  [][ ( /\ hist'.op = "update"
        /\ hist'.ok
        /\ \E c \in hist'.old \ hist'.new : \E r \in Roles :
             GroupPath(c, r) \notin DOMAIN nodes )
      => (~hist'.aborted /\ hist'.new \subseteq NameSet') ]_vars

\* What there is of a name: its entry in the name list, its folder of
\* parameters, its bake groups and its aggregator references.
Footprint(n, pg, q, o, name) ==
  [ listed |-> name \in Range(get_current_prim_groups(pg)),
    folder |-> name \in DOMAIN q,
    groups |-> { r \in Roles : GroupPath(name, r) \in DOMAIN n },
    refs   |-> { r \in Roles : RefCount(o[r], GroupPath(name, r)) >= 1 } ]

\* All of a name, and none of it.
Whole == [listed |-> TRUE, folder |-> TRUE, groups |-> Roles, refs |-> Roles]
Absent == [listed |-> FALSE, folder |-> FALSE, groups |-> {}, refs |-> {}]

\* C10: when the reconciliation stops part-way, every name is all-or-nothing:
\* each name is as update_network found it, or whole (listed, with its folder,
\* its three bake groups and its three references), or in none of them.
C10_AtomicPerName ==
  [][ (hist'.op = "update" /\ hist'.ok /\ hist'.aborted) =>
        \A name \in Names :
          Footprint(nodes', prim_groups', parms', objpath', name)
            \in { Footprint(nodes, prim_groups, parms, objpath, name), Whole, Absent }
    ]_vars

-----------------------------------------------------------------------------
(* Properties of create_network's failures *)

\* C11: when the retopo or the reference source path does not exist,
\* create_network stops before any mutation: no material, source network, bake
\* group or output has been created and no control-node parameter changed.
C11_MissingSourceMutatesNothing ==
  [][ (hist'.op = "create"
         /\ hist'.msg \in {error_no_retopo_file, error_no_reference_file})
      => UNCHANGED <<network_exists, prim_groups, nodes, objpath, parms, source_path,
                     src, live_groups, materials>> ]_vars

\* C12: when the validation of create_network fails (mismatch or no groups),
\* the graph is in its state of before the call: no source network, bake group,
\* output or material made by the call remains, and the node references stored
\* on the control node hold the values they had.
C12_FailedValidationRestores ==
  [][ (hist'.op = "create" /\ hist'.msg \in {error_no_match, error_no_groups})
      => /\ materials' = materials
         /\ \A x \in Sources : src'[x].stored = src[x].stored /\ ~src'[x].exists
         /\ UNCHANGED <<network_exists, prim_groups, nodes, objpath, parms>> ]_vars

-----------------------------------------------------------------------------
(* Properties of the topology correspondence *)

\* C13: for a position donor of n points and a topology donor of m > n points,
\* topo_match yields m points; every point below n has the position donor's
\* position, every point from n on keeps its position of the topology donor.
C13_ExtraPointsKeepPosition ==
  (fn.f = "topo_match" /\ Len(fn.retopo.P) > Len(fn.cage.P)) =>
    /\ Len(fn.out.P) = Len(fn.retopo.P)
    /\ \A i \in 1..Len(fn.cage.P) : fn.out.P[i] = fn.cage.P[i]
    /\ \A i \in (Len(fn.cage.P) + 1)..Len(fn.retopo.P) : fn.out.P[i] = fn.retopo.P[i]

\* C14: the mesh leaving the topo_match of a cage group has the point count and
\* faces of the retopo group's triangulated mesh, the point positions of the
\* cage's mesh after its subdivide switch, the groups of the cage mesh and no
\* other, and none of the retopo side's non-essential attributes.
C14_CageTopologyMatch ==
  fn.f = "cage_topology_match" =>
    /\ Len(fn.out.P) = Len(fn.retopo.P)
    /\ fn.out.faces = fn.retopo.faces
    /\ fn.out.P = fn.cage.P
    /\ fn.out.groups = fn.cage.groups
    /\ fn.out.attribs \subseteq {AttrP, AttrUv}

\* A subdivided cage whose points the user's edit has moved is matched to the
\* triangulated retopo mesh.
C14_Witness ==
  /\ fn.f = "cage_topology_match"
  /\ fn.subdivide = 1
  /\ fn.d = 1
  /\ fn.source # <<>>
  /\ fn.retopo.P # fn.cage.P
  /\ fn.out.faces = <<"triangulated", "subdivided", "source">>

-----------------------------------------------------------------------------
(* Properties of the bake groups *)

\* The node wired to <name>_post_normals through <name>_match_topology: input
\* 0 of the switch is the subdivide switch, input 1 is topo_match.
PostNormalsInput(path) ==
  IF EvalParm(nodes[path].switch) = 0 THEN "subdivide_switch" ELSE "topo_match"

\* C15: with the triangulation flag off every cage group feeds its post
\* normals from the subdivide switch, with the flag on from topo_match; so for
\* the groups update_network and reset_cage create, and after every change of
\* the flag.
C15_SwitchFollowsFlag ==
  \A path \in DOMAIN nodes :
    nodes[path].role = "cage" =>
      PostNormalsInput(path) =
        IF triangulate = 0 THEN "subdivide_switch" ELSE "topo_match"

\* The flag has just been turned on over cage groups made while it was off or
\* on, one of them by update_network or reset_cage.
C15_Witness ==
  /\ hist = NoOp
  /\ triangulate = 1
  /\ Cardinality({ path \in DOMAIN nodes : nodes[path].role = "cage" }) >= 2

\* C16: after every operation (create_network, update_network, reset_cage,
\* edit_cage, export), for every listed name the reference group's first input
\* is the name's retopo group and the cage group's first input is the name's
\* reference group.
C16_GroupsWired ==
  \A name \in NameSet :
    /\ \A r \in Roles : HasGroup(name, r)
    /\ nodes[GroupPath(name, "reference")].input = GroupPath(name, "retopo")
    /\ nodes[GroupPath(name, "cage")].input = GroupPath(name, "reference")

\* edit_cage has made the missing edit node of one of two partitions anew.
C16_Witness ==
  /\ hist.op = "edit_cage"
  /\ ~hist.aborted
  /\ Cardinality(NameSet) >= 2
  /\ nodes[GroupPath(hist.name, "cage")].edit = "empty"
  /\ nodes[GroupPath(hist.name, "cage")].input = GroupPath(hist.name, "reference")

\* C17: reset_cage(p) destroys p's cage group with its edit region and makes a
\* fresh one with no edit content: afterwards p has its one cage group, made by
\* this call and wired from p's reference group; the name list and the three
\* aggregator lists are as before; every other node, edit region included, is
\* as before.
C17_ResetRecreatesCage ==
  [][ hist'.op = "reset" =>
        LET cage == GroupPath(hist'.name, "cage")
        IN /\ ~hist'.aborted
           /\ cage \in DOMAIN nodes
           /\ cage \in DOMAIN nodes'
           /\ cage \in hist'.created
           /\ nodes'[cage].role = "cage"
           /\ nodes'[cage].edit = "empty"
           /\ nodes'[cage].input = GroupPath(hist'.name, "reference")
           /\ Cardinality({ path \in DOMAIN nodes' :
                              /\ nodes'[path].role = "cage"
                              /\ nodes'[path].input = GroupPath(hist'.name, "reference") }) = 1
           /\ prim_groups' = prim_groups
           /\ objpath' = objpath
           /\ DOMAIN nodes' = DOMAIN nodes
           /\ \A path \in DOMAIN nodes \ {cage} : nodes'[path] = nodes[path] ]_vars

\* reset_cage has remade one partition's cage while another partition's cage
\* holds the user's edits.
C17_Witness ==
  /\ hist.op = "reset"
  /\ ~hist.aborted
  /\ nodes[GroupPath(hist.name, "cage")].edit = "empty"
  /\ \E other \in NameSet \ {hist.name} :
       nodes[GroupPath(other, "cage")].edit = "user"

-----------------------------------------------------------------------------
(* Properties of the validation's outcomes *)

\* C18: when both lists of group names are empty, primitive_groups_match
\* fails and displays the message of no groups, which is not the message it
\* displays for two non-empty lists that differ.
C18_EmptyHasItsOwnMessage ==
  (fn.f = "primitive_groups_match" /\ fn.g1 = <<>> /\ fn.g2 = <<>>) =>
    /\ ~fn.ok
    /\ fn.msg = error_no_groups
    /\ \A x, y \in Names :
         x # y => /\ ~primitive_groups_match(<<x>>, <<y>>).ok
                  /\ primitive_groups_match(<<x>>, <<y>>).msg # fn.msg

\* primitive_groups_match has been applied to two meshes without groups.
C18_Witness ==
  /\ fn.f = "primitive_groups_match"
  /\ fn.g1 = <<>>
  /\ fn.g2 = <<>>
  /\ fn.msg = error_no_groups

\* Exactly one of the two lists of group names is empty.
OneEmpty == (fn.g1 = <<>>) # (fn.g2 = <<>>)

\* C19 as stated: when exactly one list is empty, primitive_groups_match fails
\* with an outcome of its own, displayed neither as a mismatch nor as no groups.
C19_AsymmetricIsItsOwnKind ==
  (fn.f = "primitive_groups_match" /\ OneEmpty) =>
    /\ ~fn.ok
    /\ fn.msg # error_no_match
    /\ fn.msg # error_no_groups

\* C19: when exactly one list is empty, primitive_groups_match fails with the
\* outcome of a mismatch (the lengths differ, and the message of no match is
\* displayed), which is not the outcome of two empty lists.
C19_AsymmetricFailsAsMismatch ==
  (fn.f = "primitive_groups_match" /\ OneEmpty) =>
    /\ ~fn.ok
    /\ fn.msg = error_no_match
    /\ fn.msg # error_no_groups
    /\ \A x, y \in Names :
         x # y => primitive_groups_match(<<x>>, <<y>>) = [ok |-> fn.ok, msg |-> fn.msg]

\* primitive_groups_match has been applied to a mesh with groups and a mesh
\* without.
C19_Witness ==
  /\ fn.f = "primitive_groups_match"
  /\ fn.g1 # <<>>
  /\ fn.g2 = <<>>
  /\ ~fn.ok

-----------------------------------------------------------------------------
(* Properties of the persisted list of names *)

\* C20: after any sequence of add_to_current_prim_groups,
\* remove_from_current_prim_groups and set_current_prim_groups calls,
\* prim_groups is the current names joined by single spaces, in sorted order,
\* no name twice; adding a name that is present and removing a name that is
\* absent leave it as it is, and adding an absent name then removing it gives
\* back the value before.
C20_NameListCanonical ==
  LET l == get_current_prim_groups(prim_groups)
  IN /\ Range(l) = hist.new
     /\ Len(l) = Cardinality(hist.new)
     /\ \A i \in 1..(Len(l) - 1) : StrLess(l[i], l[i + 1])
     /\ \A i \in 1..Len(l) : l[i] # <<>>
     /\ prim_groups = Join(l)
     /\ \A name \in PgNames :
          IF name \in hist.new
          THEN add_to_current_prim_groups(prim_groups, name) = prim_groups
          ELSE /\ remove_from_current_prim_groups(prim_groups, name) = prim_groups
               /\ remove_from_current_prim_groups(
                    add_to_current_prim_groups(prim_groups, name), name) = prim_groups

\* A name has been removed from a list that set_current_prim_groups or
\* add_to_current_prim_groups made, and two names or more are left.
C20_Witness ==
  /\ hist.op = "remove_from_current_prim_groups"
  /\ hist.name \in hist.old
  /\ Cardinality(hist.new) >= 2
  /\ prim_groups = Join(SortedSet(hist.new))

-----------------------------------------------------------------------------
(* Properties of the export *)

\* The roles of a set in the order retopo, reference, cage.
InExportOrder(S) ==
  (IF "retopo" \in S THEN <<"retopo">> ELSE <<>>)
    \o (IF "reference" \in S THEN <<"reference">> ELSE <<>>)
    \o (IF "cage" \in S THEN <<"cage">> ELSE <<>>)

\* C21: export runs one export per role asked for and none for the others, in
\* the order retopo, reference, cage; a role is exported by export_fbx, to the
\* role's export path, when the extension of that path is .fbx in any case,
\* and by the role's own export ROP otherwise.
C21_ExportPerRoleByExtension ==
  hist.op = "export" =>
    /\ ~hist.aborted
    /\ Len(hist.log) = Cardinality(hist.new)
    /\ [i \in 1..Len(hist.log) |-> hist.log[i].role] = InExportOrder(hist.new)
    /\ \A i \in 1..Len(hist.log) :
         /\ hist.log[i].path = export_path[hist.log[i].role]
         /\ hist.log[i].by = IF export_path[hist.log[i].role] \in {"out.fbx", "out.FBX"}
                             THEN "export_fbx" ELSE "export_sop"

\* Export All has run with one path of extension .FBX, one of .fbx and one of
\* another extension.
C21_Witness ==
  /\ hist.op = "export"
  /\ hist.new = Roles
  /\ Len(hist.log) = 3
  /\ { export_path[r] : r \in Roles } = ExportPaths
  /\ export_path["retopo"] = "out.FBX"

-----------------------------------------------------------------------------
(* Properties of the order of the reconciliation *)

\* s is t with some of its elements left out.
RECURSIVE IsSubsequence(_, _)
IsSubsequence(s, t) ==
  IF s = <<>> THEN TRUE
  ELSE IF t = <<>> THEN FALSE
  ELSE IF Head(s) = Head(t) THEN IsSubsequence(Tail(s), Tail(t))
  ELSE IsSubsequence(s, Tail(t))

Earlier(o, i, e) == \E j \in 1..(i - 1) : o[j] = e

\* The creation of the bake group of a name and a role, of a name's parameter
\* folder, and the listing of a name in prim_groups.
NodeEvent(name, role) == [ev |-> "node", at |-> GroupPath(name, role)]

ParmsEvent(name) == [ev |-> "parms", at |-> name]

ListedEvent(name) == [ev |-> "listed", at |-> name]

\* C23: create_network and update_network make the bake groups of a partition
\* in the order retopo, reference, cage; the name is listed in prim_groups by
\* the cage constructor, hence after its retopo and reference groups exist; the
\* reference and the cage constructor run only after the retopo constructor
\* has created the name's parameters.
C23_RetopoReferenceCage ==
  hist.op \in {"create", "update"} =>
    LET o == hist.order
    IN /\ \A i \in 1..Len(o) : \A name \in Range(AllNames) :
            /\ o[i] = NodeEvent(name, "reference") =>
                 /\ Earlier(o, i, NodeEvent(name, "retopo"))
                 /\ Earlier(o, i, ParmsEvent(name))
            /\ o[i] = NodeEvent(name, "cage") =>
                 /\ Earlier(o, i, NodeEvent(name, "reference"))
                 /\ Earlier(o, i, ParmsEvent(name))
            /\ o[i] = ListedEvent(name) =>
                 /\ i > 1
                 /\ o[i - 1] = NodeEvent(name, "cage")
       /\ (hist.ok /\ ~hist.aborted) =>
            \A name \in hist.new \ hist.old :
              /\ \E i \in 1..Len(o) : o[i] = ListedEvent(name)
              /\ \A r \in Roles : \E i \in 1..Len(o) : o[i] = NodeEvent(name, r)

\* update_network has added a partition to a network that had another.
C23_Witness ==
  /\ hist.op = "update"
  /\ hist.ok
  /\ ~hist.aborted
  /\ hist.old # {}
  /\ \E name \in hist.new \ hist.old :
       /\ hist.order[Len(hist.order)] = ListedEvent(name)
       /\ name \in NameSet

-----------------------------------------------------------------------------
(* Properties of the parameters across reset_cage *)

\* C24 as stated: after reset_cage(p) the translation offset, the peak
\* distance and the iteration count of p have the values they had before.
C24_ParmsPersistAcrossReset ==
  [][ (hist'.op = "reset" /\ ~hist'.aborted) =>
        parms'[hist'.name] = parms[hist'.name] ]_vars

\* C24: after reset_cage(p) the iteration count of p has the value it had
\* before; the translation offset and the peak distance of p are 0, whatever
\* they were.
C24_ResetZeroesTranslateAndPeak ==
  [][ (hist'.op = "reset" /\ ~hist'.aborted) =>
        /\ parms'[hist'.name].iterations = parms[hist'.name].iterations
        /\ parms'[hist'.name].translate = 0
        /\ parms'[hist'.name].peak_dist = 0 ]_vars

\* reset_cage has run on a partition whose parameters the user had set: the
\* iteration count is still the user's.
C24_Witness ==
  /\ hist.op = "reset"
  /\ ~hist.aborted
  /\ parms[hist.name] = [translate |-> 0, peak_dist |-> 0, iterations |-> 1]

\* C25: reset_cage(p) changes only p's cage group: the translation of p's
\* retopo group and of p's reference group, and every parameter of every other
\* partition, are after the reset what they were before.
C25_ResetLeavesOtherGroups ==
  [][ (hist'.op = "reset" /\ ~hist'.aborted) =>
        /\ \A r \in {"retopo", "reference"} :
             xform_t(parms', hist'.name, r) = xform_t(parms, hist'.name, r)
        /\ \A other \in DOMAIN parms \ {hist'.name} :
             /\ other \in DOMAIN parms'
             /\ parms'[other] = parms[other] ]_vars

-----------------------------------------------------------------------------
(* Properties of edit_cage *)

\* C26: after edit_cage(p) the cage group of p has its edit node between
\* USER_END and the xform: an edit node that was missing has been made anew,
\* empty, and the xform wired to it; with the edit node present the graph is
\* as it was; edit_cage run once more changes nothing; the name list, the
\* aggregators, the parameters and every other node are as before.
C26_EditCageRestoresEditNode ==
  [][ hist'.op = "edit_cage" =>
        LET cage == GroupPath(hist'.name, "cage")
        IN /\ ~hist'.aborted
           /\ nodes'[cage].edit \in {"empty", "user"}
           /\ nodes'[cage].xform_input = "edit"
           /\ nodes[cage].edit = "missing" => nodes'[cage].edit = "empty"
           /\ nodes[cage].edit # "missing" => nodes' = nodes
           /\ edit_cage_nodes(nodes', cage) = nodes'
           /\ DOMAIN nodes' = DOMAIN nodes
           /\ \A path \in DOMAIN nodes \ {cage} : nodes'[path] = nodes[path]
           /\ nodes'[cage].input = nodes[cage].input
           /\ prim_groups' = prim_groups
           /\ objpath' = objpath
           /\ parms' = parms ]_vars

\* edit_cage has run on a cage group whose edit node Houdini had removed: the
\* edit node is there again, while another partition's is still missing.
C26_Witness ==
  /\ hist.op = "edit_cage"
  /\ ~hist.aborted
  /\ nodes[GroupPath(hist.name, "cage")].edit = "empty"
  /\ nodes[GroupPath(hist.name, "cage")].xform_input = "edit"
  /\ \E other \in NameSet \ {hist.name} :
       /\ nodes[GroupPath(other, "cage")].edit = "missing"
       /\ nodes[GroupPath(other, "cage")].xform_input = "none"

-----------------------------------------------------------------------------
(* Properties of the FBX export *)

\* C27: an FBX export leaves the graph as it found it: the subnet and the ROP
\* that export_fbx creates are destroyed before it returns, and the bake
\* groups, the name list, the three aggregators and all parameters are what
\* they were, after any number of exports and in every state of the network.
C27_FbxExportLeavesGraph ==
  [][ (hist'.op = "export" /\ \E i \in 1..Len(hist'.log) : hist'.log[i].by = "export_fbx") =>
        /\ ~hist'.aborted
        /\ {fbx_temp_subnet, fbx_rop_path} \subseteq hist'.created
        /\ fbx_temp_subnet \notin DOMAIN nodes'
        /\ fbx_rop_path \notin DOMAIN nodes'
        /\ nodes' = nodes
        /\ prim_groups' = prim_groups
        /\ objpath' = objpath
        /\ parms' = parms
        /\ network_exists' = network_exists
        /\ triangulate' = triangulate
        /\ export_path' = export_path ]_vars

\* Export All has exported the three roles of two partitions as FBX, after an
\* earlier export.
C27_Witness ==
  /\ hist.op = "export"
  /\ ~hist.aborted
  /\ Cardinality(NameSet) >= 2
  /\ Len(hist.log) = 3
  /\ \A i \in 1..3 : hist.log[i].by = "export_fbx"
  /\ hist.created = {fbx_temp_subnet, fbx_rop_path}
  /\ DOMAIN nodes = { GroupPath(name, r) : name \in NameSet, r \in Roles }

-----------------------------------------------------------------------------
(* Properties of the control node's flags *)

\* C28: in every state reached through create_network, update_network,
\* reset_cage, edit_cage and export in which network_exists is 1, prim_groups
\* is not empty: the names update_network and export_fbx get from
\* prim_groups.split(' ') are none of them the empty name, and the paths they
\* address are none of them <network>/_<role>.
C28_NetworkHasNames ==
  network_exists =>
    /\ prim_groups # <<>>
    /\ \A i \in 1..Len(Split(prim_groups)) :
         /\ Split(prim_groups)[i] # <<>>
         /\ \A r \in Roles : GroupPath(Split(prim_groups)[i], r) # GroupPath(<<>>, r)

\* update_network has found no primitive group in the two new meshes and has
\* left the network and its names as they were.
C28_Witness ==
  /\ network_exists
  /\ hist.op = "update"
  /\ hist.msg = error_no_groups
  /\ prim_groups # <<>>

\* C29: network_exists becomes 1 only at the end of a create_network that has
\* completed every step: both source sub-networks, the three wired bake groups
\* of every partition, the three outputs with their references.  A
\* create_network that stops on a missing source or a failed validation
\* leaves it 0.  update_network, reset_cage, edit_cage and export never set it
\* back to 0.
C29_NetworkExistsOnlyWhenComplete ==
  [][ /\ (~network_exists /\ network_exists') =>
           /\ hist'.op = "create"
           /\ hist'.ok
           /\ ~hist'.aborted
           /\ \A x \in Sources : src'[x].exists
           /\ \A name \in hist'.new :
                /\ \A r \in Roles : GroupPath(name, r) \in DOMAIN nodes'
                /\ nodes'[GroupPath(name, "reference")].input = GroupPath(name, "retopo")
                /\ nodes'[GroupPath(name, "cage")].input = GroupPath(name, "reference")
           /\ \A r \in Roles : objpath'[r] = PathsOf(SortedSet(hist'.new), r)
      /\ (hist'.op = "create" /\ (~hist'.ok \/ hist'.aborted)) => ~network_exists'
      /\ network_exists => network_exists' ]_vars

\* create_network has completed on two partitions and made their six bake
\* groups.
C29_Witness ==
  /\ network_exists
  /\ hist.op = "create"
  /\ hist.ok
  /\ Cardinality(hist.new) = 2
  /\ Cardinality(hist.created) = 6

-----------------------------------------------------------------------------
(* Properties of the sources' FBX switches *)

\* C30: after create_network the live and the temporary FBX switch of each
\* source sub-network select the FBX branch exactly when that source's own
\* path has the extension .fbx, for the four combinations of the two paths,
\* as the temporary switches do after update_network on the same paths.
C30_SwitchesFollowOwnPath ==
  (hist.op = "create" /\ hist.ok /\ ~hist.aborted) =>
    \A x \in Sources :
      /\ src[x].is_fbx = (IF source_path[x] = "in.fbx" THEN 1 ELSE 0)
      /\ src[x].is_fbx_temp = (IF source_path[x] = "in.fbx" THEN 1 ELSE 0)
      /\ src[x].is_fbx_temp = update_sources(src, source_path, TRUE)[x].is_fbx_temp

=============================================================================
